---- MODULE Spec2Model ----
(***************************************************************************)
(* Site discovery and TLS/reachability monitoring of the server monitor    *)
(* agent (SitesCollector): the nginx config parser, the domain dedup, the  *)
(* batch scheduler of collectAll, checkSite and the two probes; and the    *)
(* monitored process list of ProcessCollector.                             *)
(*                                                                         *)
(* A config text is modelled by what the parser's regular expressions see  *)
(* of it: the server_name directives, the listen directives and the        *)
(* directives that contain "ssl_certificate", each list in file order.     *)
(* An optional value (a field that may be undefined) is <<>> when absent   *)
(* and <<v>> when present.  A path is the sequence of its segments.        *)
(***************************************************************************)
EXTENDS Integers, Sequences, FiniteSets, TLC

VARIABLES
    content,      \* parser run: the file handed to parseNginxConfig
    parsed,       \* parser run: <<>> before the call, <<result>> after it
    call,         \* probe run: the function called and its arguments
    ret,          \* probe run: <<>> before the call, <<what it did>> after it
    req,          \* event run: the request and the promise of one probe
    disk,         \* collectAll run: what discovery finds beside sites-enabled
    files,        \* collectAll run: the config files of sites-enabled, in order
    pc,           \* collectAll run: position in collectAll
    nginxSites,   \* entries returned by getNginxSites
    k,            \* dedup loop: number of entries of nginxSites consumed
    uniqueSites,  \* the Map domain -> entry, as its values in insertion order
    sitesArray,   \* Array.from(uniqueSites.values())
    i,            \* batch loop index (0-based, as in the code)
    tasks,        \* one checkSite call per element of sitesArray
    sites,        \* the accumulating result list
    pauses,       \* the delays (ms) of the inter-batch pauses started so far
    faults,       \* number of inspections/probes that failed at run time so far
    heap,         \* process list run: the arrays allocated so far, by reference
    processes,    \* the reference held by this.config.processes
    returned,     \* the reference getMonitoredProcesses returned last (0: none)
    initial,      \* the process list the collector was constructed with
    log           \* the calls made on the collector and on the returned array

vars == <<content, parsed, call, ret, req, disk, files, pc, nginxSites, k, uniqueSites, sitesArray,
          i, tasks, sites, pauses, faults, heap, processes, returned, initial,
          log>>

procVars == <<heap, processes, returned, initial, log>>
parseVars == <<content, parsed, call, ret, req, disk, procVars>>
runVars == <<files, pc, nginxSites, k, uniqueSites, sitesArray, i, tasks,
             sites, pauses, faults>>

(***************************************************************************)
(* Bounds of the model.                                                    *)
(***************************************************************************)
MaxListens == 2     \* listen directives in one config text
MaxFiles == 4       \* config files of a dedup run
MaxSites == 7       \* distinct domains of a collectAll run
MaxDups == 1        \* second config files of a collectAll run
MaxFaults == 2      \* inspections/probes failing at run time in one collectAll run
MaxDaysAhead == 11  \* days from now to the latest notAfter date of a probe run
MaxCalls == 4       \* calls of a process list run

(***************************************************************************)
(* Helpers for sequences and optional values.                              *)
(***************************************************************************)
Absent == <<>>
Some(v) == <<v>>

SeqsUpTo(S, n) == UNION {[1..m -> S] : m \in 0..n}

Min(S) == CHOOSE x \in S : \A y \in S : x <= y

\* path.startsWith(dir + '/'), on path segments
StartsWithDir(path, dir) ==
    /\ Len(path) > Len(dir)
    /\ SubSeq(path, 1, Len(dir)) = dir

(***************************************************************************)
(* The config texts of the model.                                          *)
(*   serverNames: the token list of each `server_name ... ;` directive     *)
(*   listens:     each match of the listen regex: its port digits and what *)
(*                follows them: "none" (nothing, or a parameter that is    *)
(*                not ssl), "ssl" (blanks then ssl), "tab_ssl" (ssl after  *)
(*                a tab: matched by \s+ssl, but match[0] has no " ssl"),   *)
(*                "late_ssl" (ssl after another parameter, as in           *)
(*                `listen 8443 default_server ssl`, outside the match)     *)
(*   certs:       each directive containing "ssl_certificate": the         *)
(*                ssl_certificate_key ones (key = TRUE) contain the        *)
(*                substring but do not match /ssl_certificate\s+([^;]+);/  *)
(***************************************************************************)
PleskCertDir == <<"opt", "psa", "var", "certificates">>
PleskCert == PleskCertDir \o <<"scfAbc123">>
OtherCert == <<"etc", "ssl", "shop.pem">>
KeyFile == <<"etc", "ssl", "shop.key">>

Ports == {80, 443, 8080}
ListenFlags == {"none", "ssl", "tab_ssl", "late_ssl"}
Listens == [port : Ports, flag : ListenFlags]

ServerNameLists ==
    {<<>>, <<<<"_">>>>, <<<<"example.com">>>>, <<<<"_", "example.com">>>>,
     <<<<"a.example.com", "_">>, <<"b.example.com">>>>}

CertLists ==
    {<<>>,
     <<[key |-> TRUE, path |-> KeyFile]>>,
     <<[key |-> FALSE, path |-> OtherCert]>>,
     <<[key |-> TRUE, path |-> KeyFile], [key |-> FALSE, path |-> PleskCert]>>,
     <<[key |-> FALSE, path |-> OtherCert], [key |-> FALSE, path |-> PleskCert]>>}

Texts ==
    [serverNames : ServerNameLists,
     listens : SeqsUpTo(Listens, MaxListens),
     certs : CertLists]

ConfigFiles == [readable : BOOLEAN, text : Texts]

(***************************************************************************)
(* parseNginxConfig                                                        *)
(***************************************************************************)
\* faulty variant of the domain selection: the first token, wildcard or not
PickDomainFirstToken(domains) == domains[1]

\* domains.find(d => d !== '_') || domains[0]
PickDomain(domains) ==
    LET real == {j \in 1..Len(domains) : domains[j] # "_"}
    IN IF real # {} THEN domains[Min(real)] ELSE domains[1]

\* match[0].includes(' ssl')
HasSslFlag(listen) == listen.flag = "ssl"

\* the for loop over listenMatches, started at directive j with the port and
\* isSsl accumulated so far
RECURSIVE ScanListens(_, _, _, _)
ScanListens(listens, j, port, isSsl) ==
    IF j > Len(listens) THEN [port |-> port, isSsl |-> isSsl]
    ELSE IF HasSslFlag(listens[j]) \/ listens[j].port = 443
         THEN [port |-> listens[j].port, isSsl |-> TRUE]
         ELSE IF port = 80
              THEN ScanListens(listens, j + 1, listens[j].port, isSsl)
              ELSE ScanListens(listens, j + 1, port, isSsl)

\* faulty variant of the certificate match: the last matching directive
FirstCertPathOfLast(certs) ==
    LET hits == {j \in 1..Len(certs) : ~certs[j].key}
    IN IF hits = {} THEN Absent
       ELSE Some(certs[CHOOSE j \in hits : \A m \in hits : m <= j].path)

\* the argument of the first directive matching /ssl_certificate\s+([^;]+);/
FirstCertPath(certs) ==
    LET hits == {j \in 1..Len(certs) : ~certs[j].key}
    IN IF hits = {} THEN Absent ELSE Some(certs[Min(hits)].path)

\* the result of parseNginxConfig: Absent for null
ParseNginxConfig(configPath, file, isEnabled) ==
    IF ~file.readable THEN Absent
    ELSE IF file.text.serverNames = <<>> THEN Absent
    ELSE
      LET text == file.text
          domain == PickDomain(text.serverNames[1])
          hasSslCert == text.certs # <<>>
          scan == ScanListens(text.listens, 1, 80, hasSslCert)
          forced == hasSslCert /\ ~scan.isSsl
          port == IF forced THEN 443 ELSE scan.port
          isSsl == IF forced THEN TRUE ELSE scan.isSsl
      IN Some([domain |-> domain,
               configPath |-> configPath,
               isEnabled |-> isEnabled,
               port |-> port,
               isSsl |-> isSsl,
               sslCertPath |-> IF isSsl THEN FirstCertPath(text.certs)
                               ELSE Absent])

(***************************************************************************)
(* The world of a collectAll run: the config files discovery finds and     *)
(* what the monitored hosts answer.  File n of the list is                 *)
(* /etc/nginx/sites-enabled/<FileNames[n]>; it declares one domain and is  *)
(* a plain vhost, or a TLS vhost whose certificate lies outside the Plesk  *)
(* store, inside it, or is not named in the file; a discovery run also has *)
(* files without a server_name directive ("snippet") and files that        *)
(* cannot be read ("unreadable").  Two of the domains are                  *)
(* server names that the request functions reject: a regular-expression    *)
(* name, for which `new URL` inside http.get / https.get throws (the host  *)
(* holds a forbidden code point), and a name written with a character      *)
(* above U+00FF, for which https.request throws when it sets the Host      *)
(* header (the URL parser would have converted it to punycode).            *)
(***************************************************************************)
RegexName == "~^(www.)?d.example$"
NonLatin1Name == "f(U+4F8B).example"
DomainNames ==
    <<"a.example", "b.example", "c.example", RegexName, "e.example",
      NonLatin1Name, "g.example", "h.example", "i.example", "j.example">>
FileNames ==
    <<"f1.conf", "f2.conf", "f3.conf", "f4.conf", "f5.conf", "f6.conf",
      "f7.conf", "f8.conf", "f9.conf", "f10.conf", "f11.conf", "f12.conf",
      "f13.conf", "f14.conf">>
Variants == {"plain", "tls", "plesk", "nocert"}

DomainIndex(domain) == CHOOSE n \in 1..Len(DomainNames) : DomainNames[n] = domain

SiteText(d, variant) ==
    [serverNames |-> IF variant = "snippet" THEN <<>> ELSE <<<<DomainNames[d]>>>>,
     listens |-> IF variant \in {"plain", "snippet", "unreadable"}
                 THEN <<[port |-> 80, flag |-> "none"]>>
                 ELSE <<[port |-> 80, flag |-> "none"],
                        [port |-> 443, flag |-> "ssl"]>>,
     certs |-> CASE variant = "tls" ->
                      <<[key |-> FALSE, path |-> OtherCert],
                        [key |-> TRUE, path |-> KeyFile]>>
                 [] variant = "plesk" -> <<[key |-> FALSE, path |-> PleskCert]>>
                 [] OTHER -> <<>>]

SiteFile(d, variant) ==
    [readable |-> variant # "unreadable", text |-> SiteText(d, variant)]

\* the domains of a file list are numbered in order of first appearance
\* (the code only compares domains for equality)
InOrderOfAppearance(ds) ==
    \A j \in 1..Len(ds) :
        ds[j] = 1 \/ \E m \in 1..(j - 1) : ds[m] = ds[j] - 1

FileListOf(ds, vs) == [j \in 1..Len(ds) |-> [d |-> ds[j], variant |-> vs[j]]]

\* the file lists of the full runs: n vhosts of distinct domains, the
\* variant of vhost d set by its position, followed by a second config file
\* of the opposite kind (plain for a TLS vhost, TLS for a plain one) for the
\* first m of them, last first
VariantCycle == <<"plain", "tls", "plesk", "nocert">>
VariantOf(d) == VariantCycle[((d - 1) % 4) + 1]
Flip(variant) == IF variant = "plain" THEN "tls" ELSE "plain"

RunFileList(n, m) ==
    [j \in 1..(n + m) |->
        IF j <= n THEN [d |-> j, variant |-> VariantOf(j)]
        ELSE [d |-> n + m + 1 - j, variant |-> Flip(VariantOf(n + m + 1 - j))]]

RunFileLists ==
    UNION {{RunFileList(n, m) : m \in 0..(IF n < MaxDups THEN n ELSE MaxDups)} :
           n \in 0..MaxSites}

ConfigPathOf(n) == <<"etc", "nginx", "sites-enabled", FileNames[n]>>

\* what the hosts answer: the notAfter date of the certificate of a domain
\* (milliseconds; those of a.example and b.example lie in the past), the status code and
\* the latency of its HTTP response
MsPerDay == 1000 * 60 * 60 * 24
Now == 10 * MsPerDay
CertNotAfter(domain) ==
    Now + (DomainIndex(domain) - 3) * 2 * MsPerDay + 1000 * DomainIndex(domain)
ServerStatus(domain) == IF DomainIndex(domain) % 2 = 1 THEN 200 ELSE 503
ResponseMs(domain) == 10 * DomainIndex(domain)

(***************************************************************************)
(* collectAll: discovery, dedup loop, batch loop.                          *)
(***************************************************************************)
BatchSize == 3
PauseMs == 2000

\* faulty variant of the enabled sites loop: it ends at the first file
\* that does not parse
RECURSIVE ParseAllStopsAtNull(_, _)
ParseAllStopsAtNull(fl, n) ==
    IF n > Len(fl) THEN <<>>
    ELSE LET siteInfo == ParseNginxConfig(ConfigPathOf(n),
                                          SiteFile(fl[n].d, fl[n].variant), TRUE)
         IN IF siteInfo = Absent THEN <<>>
            ELSE siteInfo \o ParseAllStopsAtNull(fl, n + 1)

\* getNginxSites over the files of the enabled-sites directory: every file
\* that parses adds its entry
RECURSIVE ParseAll(_, _)
ParseAll(fl, n) ==
    IF n > Len(fl) THEN <<>>
    ELSE LET siteInfo == ParseNginxConfig(ConfigPathOf(n),
                                          SiteFile(fl[n].d, fl[n].variant), TRUE)
         IN siteInfo \o ParseAll(fl, n + 1)

(***************************************************************************)
(* getNginxSites over the four places it looks in.  The files of           *)
(* sites-enabled are the list `files`; the disk record holds the rest:     *)
(*   nginxRoot:      /etc/nginx exists                                     *)
(*   lsEnabledFails: the execAsync call listing sites-enabled rejects      *)
(*   available:      sites-available: its files by name, and whether an    *)
(*                   execAsync call of its block rejects                   *)
(*   vhosts, confd:  the nginx.conf files under /var/www/vhosts/system and *)
(*                   the files of /etc/nginx/plesk.conf.d/vhosts, by path, *)
(*                   and whether the execAsync call rejects                *)
(* A directory that does not exist lists no file (`ls ... || echo ""`).    *)
(***************************************************************************)
AvailableDir == <<"etc", "nginx", "sites-available">>
VhostsDir == <<"var", "www", "vhosts", "system">>
ConfdDir == <<"etc", "nginx", "plesk.conf.d", "vhosts">>

NoListing == [fails |-> FALSE, files |-> <<>>]

StandardDisk ==
    [nginxRoot |-> TRUE, lsEnabledFails |-> FALSE, available |-> NoListing,
     vhosts |-> NoListing, confd |-> NoListing]

ListedFile(e) == [readable |-> e.readable, text |-> SiteText(e.d, e.variant)]

\* the loop over availableSiteFiles: `default` and the names listed in
\* sites-enabled are left out, the others parsed as not enabled
RECURSIVE ParseAvailable(_, _, _)
ParseAvailable(fs, enabledNames, n) ==
    IF n > Len(fs) THEN <<>>
    ELSE LET siteInfo ==
                 IF fs[n].name = "default" \/ fs[n].name \in enabledNames
                 THEN Absent
                 ELSE ParseNginxConfig(Append(AvailableDir, fs[n].name),
                                       ListedFile(fs[n]), FALSE)
         IN siteInfo \o ParseAvailable(fs, enabledNames, n + 1)

\* the loops over pleskConfigFiles and pleskFiles: each entry is pushed
\* with configPath + ' (Plesk)'
RECURSIVE ParsePlesk(_, _)
ParsePlesk(fs, n) ==
    IF n > Len(fs) THEN <<>>
    ELSE LET siteInfo == ParseNginxConfig(fs[n].path, ListedFile(fs[n]), TRUE)
         IN (IF siteInfo = Absent THEN <<>>
             ELSE <<[siteInfo[1] EXCEPT !.configPath = Append(@, " (Plesk)")]>>)
            \o ParsePlesk(fs, n + 1)

\* the four try blocks of getNginxSites: a block whose execAsync rejects
\* pushes nothing
EnabledSites(enabled, d) ==
    IF d.lsEnabledFails THEN <<>> ELSE ParseAll(enabled, 1)

AvailableSites(enabled, d) ==
    IF d.available.fails THEN <<>>
    ELSE ParseAvailable(d.available.files,
                        {FileNames[n] : n \in 1..Len(enabled)}, 1)

VhostsSites(d) == IF d.vhosts.fails THEN <<>> ELSE ParsePlesk(d.vhosts.files, 1)

ConfdSites(d) == IF d.confd.fails THEN <<>> ELSE ParsePlesk(d.confd.files, 1)

\* getNginxSites
NginxSites(enabled, d) ==
    IF ~d.nginxRoot THEN <<>>
    ELSE EnabledSites(enabled, d) \o AvailableSites(enabled, d)
             \o VhostsSites(d) \o ConfdSites(d)

\* uniqueSites.get(domain): the position of the entry kept for the domain in
\* the map, 0 when there is none
Existing(map, domain) ==
    LET hits == {j \in 1..Len(map) : map[j].domain = domain}
    IN IF hits = {} THEN 0 ELSE Min(hits)

\* faulty variants of the dedup iteration, used to test that the properties
\* below depend on it: the map is never consulted; a kept entry is never
\* replaced; a TLS entry replaces whatever is kept
DedupInsertAppends(map, site) == Append(map, site)

DedupInsertKeepsFirst(map, site) ==
    IF Existing(map, site.domain) = 0 THEN Append(map, site) ELSE map

DedupInsertTlsReplaces(map, site) ==
    LET e == Existing(map, site.domain)
    IN IF e = 0 THEN Append(map, site)
       ELSE IF site.isSsl THEN [map EXCEPT ![e] = site]
       ELSE map

\* faulty variant of the dedup iteration: only an enabled entry replaces
DedupInsertPrefersEnabled(map, site) ==
    LET e == Existing(map, site.domain)
    IN IF e = 0 THEN Append(map, site)
       ELSE IF site.isSsl /\ ~map[e].isSsl /\ site.isEnabled
            THEN [map EXCEPT ![e] = site]
       ELSE map

\* one iteration of the dedup loop: Map.set on a present key keeps the key's
\* place in the insertion order
DedupInsert(map, site) ==
    LET e == Existing(map, site.domain)
    IN IF e = 0 THEN Append(map, site)
       ELSE IF site.isSsl /\ ~map[e].isSsl THEN [map EXCEPT ![e] = site]
       ELSE map

\* faulty variant of the dedup loop: it stops one entry early
RECURSIVE DedupeSkipsLast(_, _, _)
DedupeSkipsLast(map, entries, from) ==
    IF from >= Len(entries) THEN map
    ELSE DedupeSkipsLast(DedupInsert(map, entries[from]), entries, from + 1)

\* the whole dedup loop over entries[from..]
RECURSIVE Dedupe(_, _, _)
Dedupe(map, entries, from) ==
    IF from > Len(entries) THEN map
    ELSE Dedupe(DedupInsert(map, entries[from]), entries, from + 1)

\* no probe function is run on its own
NoCall == call = Absent /\ ret = Absent /\ req = Absent

\* no ProcessCollector has been constructed
NoCollector ==
    /\ heap = <<>> /\ processes = 0 /\ returned = 0
    /\ initial = <<>> /\ log = <<>>

Init ==
    /\ content = [file |-> SiteFile(1, "plain"), isEnabled |-> TRUE]
    /\ parsed = Absent
    /\ NoCall
    /\ NoCollector
    /\ disk = StandardDisk
    /\ files \in RunFileLists
    /\ pc = "start"
    /\ nginxSites = <<>>
    /\ k = 0
    /\ uniqueSites = <<>>
    /\ sitesArray = <<>>
    /\ i = 0
    /\ tasks = <<>>
    /\ sites = <<>>
    /\ pauses = <<>>
    /\ faults = 0

\* const nginxSites = await this.getNginxSites()
GetNginxSites ==
    /\ pc = "start"
    /\ nginxSites' = NginxSites(files, disk)
    /\ pc' = "dedup"
    /\ UNCHANGED <<parseVars, files, k, uniqueSites, sitesArray, i, tasks,
                   sites, pauses, faults>>

\* one iteration of `for (const site of nginxSites)`
DedupStep ==
    /\ pc = "dedup"
    /\ k < Len(nginxSites)
    /\ uniqueSites' = DedupInsert(uniqueSites, nginxSites[k + 1])
    /\ k' = k + 1
    /\ UNCHANGED <<parseVars, files, pc, nginxSites, sitesArray, i, tasks,
                   sites, pauses, faults>>

IdleTask ==
    [st |-> "idle", via |-> "none", cert |-> "none", reach |-> "none",
     inspections |-> 0, probes |-> 0, lingering |-> FALSE, result |-> Absent]

\* the dedup loop ends: sitesArray = Array.from(uniqueSites.values()), i = 0
DedupDone ==
    /\ pc = "dedup"
    /\ k = Len(nginxSites)
    /\ sitesArray' = uniqueSites
    /\ i' = 0
    /\ tasks' = [j \in 1..Len(uniqueSites) |-> IdleTask]
    /\ pc' = "batch"
    /\ UNCHANGED <<parseVars, files, nginxSites, k, uniqueSites, sites,
                   pauses, faults>>

(***************************************************************************)
(* checkSite, one call per entry of a batch.  A task is                    *)
(*   st:     "idle" (not called yet), "cert" (awaiting the certificate     *)
(*           inspection), "probe" (awaiting checkReachability), "done"     *)
(*   via:    the inspection function called: "none", "file"                *)
(*           (getPleskSSLCertInfo), "handshake" (getSSLCertInfo)           *)
(*   cert:   the promise of the inspection: "none" (not called),           *)
(*           "pending", resolved with "info" or with "null", "rejected"    *)
(*   reach:  the promise of checkReachability: "none", "pending",          *)
(*           resolved by the "response", the "error" or the "timeout"      *)
(*           handler, "rejected"                                           *)
(*   inspections, probes: the calls of an inspection function and of       *)
(*           checkReachability made so far                                 *)
(*   lingering: the https request of getSSLCertInfo got its response: the  *)
(*           promise is resolved but the request is neither destroyed nor  *)
(*           its response read, so it stays open until its 20 s timeout    *)
(*           or the server ends it                                         *)
(*   result: the Site record being filled                                  *)
(***************************************************************************)
NewResultOmitsCertPath(site) ==
    [domain |-> site.domain,
     configPath |-> site.configPath,
     isEnabled |-> site.isEnabled,
     port |-> site.port,
     isSsl |-> site.isSsl,
     sslCertPath |-> Absent,
     sslCertExpiry |-> Absent,
     sslDaysRemaining |-> Absent,
     isReachable |-> FALSE,
     httpStatusCode |-> Absent,
     responseTimeMs |-> Absent]

NewResult(site) ==
    [domain |-> site.domain,
     configPath |-> site.configPath,
     isEnabled |-> site.isEnabled,
     port |-> site.port,
     isSsl |-> site.isSsl,
     sslCertPath |-> site.sslCertPath,
     sslCertExpiry |-> Absent,
     sslDaysRemaining |-> Absent,
     isReachable |-> FALSE,
     httpStatusCode |-> Absent,
     responseTimeMs |-> Absent]

\* protocol.get(url, ...) throws ERR_INVALID_URL
InvalidUrlHost(domain) == domain = RegexName

\* https.request({host: domain, ...}) throws ERR_INVALID_CHAR
InvalidHeaderHost(domain) == domain = NonLatin1Name

\* if (site.isSsl && site.sslCertPath)
InspectsCert(site) == site.isSsl /\ site.sslCertPath # Absent

\* site.sslCertPath.startsWith('/opt/psa/var/certificates/')
UsesFileStrategy(site) == StartsWithDir(site.sslCertPath[1], PleskCertDir)

\* faulty variant of the day count: the quotient is truncated toward zero
DaysRemainingTruncated(expiry, now) ==
    IF expiry >= now THEN (expiry - now) \div MsPerDay
    ELSE 0 - ((now - expiry) \div MsPerDay)

\* Math.floor((expiry.getTime() - now.getTime()) / (1000 * 60 * 60 * 24))
DaysRemaining(expiry, now) == (expiry - now) \div MsPerDay

\* checkSite up to its first await
StartCheck(site) ==
    IF InspectsCert(site)
    THEN [st |-> "cert",
          via |-> IF UsesFileStrategy(site) THEN "file" ELSE "handshake",
          cert |-> "pending", reach |-> "none", inspections |-> 1,
          probes |-> 0, lingering |-> FALSE, result |-> NewResult(site)]
    ELSE [st |-> "probe", via |-> "none", cert |-> "none", reach |-> "pending",
          inspections |-> 0, probes |-> 1, lingering |-> FALSE,
          result |-> NewResult(site)]

\* faulty variant of the slice: every remaining entry is in the batch
BatchOfRest(from, n) == {j \in 1..n : from < j}

BatchOf(from, n) == {j \in 1..n : from < j /\ j <= from + BatchSize}

\* loop test true: batch = sitesArray.slice(i, i + 3); each checkSite call
\* runs to its first await; collectAll awaits Promise.all
StartBatch ==
    /\ pc = "batch"
    /\ i < Len(sitesArray)
    /\ tasks' = [j \in 1..Len(sitesArray) |->
                    IF j \in BatchOf(i, Len(sitesArray))
                    THEN StartCheck(sitesArray[j]) ELSE tasks[j]]
    /\ pc' = "await"
    /\ UNCHANGED <<parseVars, files, nginxSites, k, uniqueSites, sitesArray,
                   i, sites, pauses, faults>>

\* faulty variant of the loop test: the loop is left only when i is past
\* the length
ReturnPastEnd ==
    /\ pc = "batch"
    /\ i > Len(sitesArray)
    /\ pc' = "done"
    /\ UNCHANGED <<parseVars, files, nginxSites, k, uniqueSites, sitesArray,
                   i, tasks, sites, pauses, faults>>

\* loop test false: return sites
Return ==
    /\ pc = "batch"
    /\ i >= Len(sitesArray)
    /\ pc' = "done"
    /\ UNCHANGED <<parseVars, files, nginxSites, k, uniqueSites, sitesArray,
                   i, tasks, sites, pauses, faults>>

TaskFrame == UNCHANGED <<parseVars, files, pc, nginxSites, k, uniqueSites,
                         sitesArray, i, sites, pauses>>

\* faulty variant of the certInfo branch: daysRemaining is not copied
CertInfoExpiryOnly(j) ==
    /\ tasks[j].st = "cert"
    /\ UsesFileStrategy(sitesArray[j]) \/ ~InvalidHeaderHost(sitesArray[j].domain)
    /\ tasks' = [tasks EXCEPT
           ![j].cert = "info",
           ![j].result.sslCertExpiry = Some(CertNotAfter(sitesArray[j].domain)),
           ![j].st = "probe",
           ![j].reach = "pending",
           ![j].probes = @ + 1]
    /\ UNCHANGED faults
    /\ TaskFrame

\* the inspection returns certInfo: both expiry fields are written, then
\* checkReachability is called
CertInfo(j) ==
    /\ tasks[j].st = "cert"
    /\ UsesFileStrategy(sitesArray[j]) \/ ~InvalidHeaderHost(sitesArray[j].domain)
    /\ LET site == sitesArray[j]
           expiry == CertNotAfter(site.domain)
       IN tasks' = [tasks EXCEPT
              ![j].cert = "info",
              ![j].result.sslCertExpiry = Some(expiry),
              ![j].result.sslDaysRemaining = Some(DaysRemaining(expiry, Now)),
              ![j].lingering = (tasks[j].via = "handshake"),
              ![j].st = "probe",
              ![j].reach = "pending",
              ![j].probes = @ + 1]
    /\ UNCHANGED faults
    /\ TaskFrame

\* the request that getSSLCertInfo left open ends: its 20 s timeout fires
\* (req.destroy(); the resolve(null) that follows changes nothing) or the
\* server closes the connection
HandshakeRequestEnds(j) ==
    /\ tasks[j].lingering
    /\ tasks' = [tasks EXCEPT ![j].lingering = FALSE]
    /\ UNCHANGED faults
    /\ TaskFrame

\* faulty variant of the null branch: checkSite returns without the probe
CertNullEndsCheck(j) ==
    /\ tasks[j].st = "cert"
    /\ UsesFileStrategy(sitesArray[j]) \/ ~InvalidHeaderHost(sitesArray[j].domain)
    /\ faults < MaxFaults
    /\ faults' = faults + 1
    /\ tasks' = [tasks EXCEPT ![j].cert = "null", ![j].st = "done"]
    /\ TaskFrame

\* the inspection returns null (openssl failed or printed no notAfter; the
\* handshake failed, timed out or gave no valid_to)
CertNull(j) ==
    /\ tasks[j].st = "cert"
    /\ UsesFileStrategy(sitesArray[j]) \/ ~InvalidHeaderHost(sitesArray[j].domain)
    /\ faults < MaxFaults
    /\ faults' = faults + 1
    /\ tasks' = [tasks EXCEPT ![j].cert = "null", ![j].st = "probe",
                              ![j].reach = "pending", ![j].probes = @ + 1]
    /\ TaskFrame

\* https.request throws inside the promise executor of getSSLCertInfo (a
\* host that is no valid header value): the promise rejects and the catch of
\* checkSite logs it
CertThrows(j) ==
    /\ tasks[j].st = "cert"
    /\ ~UsesFileStrategy(sitesArray[j])
    /\ InvalidHeaderHost(sitesArray[j].domain)
    /\ UNCHANGED faults
    /\ tasks' = [tasks EXCEPT ![j].cert = "rejected", ![j].st = "probe",
                              ![j].reach = "pending", ![j].probes = @ + 1]
    /\ TaskFrame

\* faulty variant of the response callback: the check pushes its result to
\* the result list itself
ProbeResponsePushes(j) ==
    /\ tasks[j].st = "probe"
    /\ ~InvalidUrlHost(sitesArray[j].domain)
    /\ LET site == sitesArray[j]
       IN tasks' = [tasks EXCEPT
              ![j].reach = "response",
              ![j].result.isReachable = TRUE,
              ![j].result.httpStatusCode = Some(ServerStatus(site.domain)),
              ![j].result.responseTimeMs = Some(ResponseMs(site.domain)),
              ![j].st = "done"]
    /\ sites' = Append(sites, tasks'[j].result)
    /\ UNCHANGED <<parseVars, files, pc, nginxSites, k, uniqueSites,
                   sitesArray, i, pauses, faults>>

\* the response callback: resolve({isReachable: true, statusCode, responseTime})
ProbeResponse(j) ==
    /\ tasks[j].st = "probe"
    /\ ~InvalidUrlHost(sitesArray[j].domain)
    /\ LET site == sitesArray[j]
       IN tasks' = [tasks EXCEPT
              ![j].reach = "response",
              ![j].result.isReachable = TRUE,
              ![j].result.httpStatusCode = Some(ServerStatus(site.domain)),
              ![j].result.responseTimeMs = Some(ResponseMs(site.domain)),
              ![j].st = "done"]
    /\ UNCHANGED faults
    /\ TaskFrame

\* faulty variant of the failure handlers: the resolved value carries a
\* status code
UnreachableKeepsStatus(j, handler) ==
    /\ faults < MaxFaults
    /\ faults' = faults + 1
    /\ tasks' = [tasks EXCEPT
           ![j].reach = handler,
           ![j].result.isReachable = FALSE,
           ![j].result.httpStatusCode = Some(0),
           ![j].result.responseTimeMs = Absent,
           ![j].st = "done"]
    /\ TaskFrame

\* faulty variant of the failure handlers: the request is issued again
UnreachableRetries(j, handler) ==
    /\ faults < MaxFaults
    /\ faults' = faults + 1
    /\ tasks' = [tasks EXCEPT ![j].reach = "pending", ![j].probes = @ + 1]
    /\ TaskFrame

\* resolve({isReachable: false}), as the error and the timeout handlers do,
\* and the assignments of checkSite that follow
Unreachable(j, handler) ==
    /\ faults < MaxFaults
    /\ faults' = faults + 1
    /\ tasks' = [tasks EXCEPT
           ![j].reach = handler,
           ![j].result.isReachable = FALSE,
           ![j].result.httpStatusCode = Absent,
           ![j].result.responseTimeMs = Absent,
           ![j].st = "done"]
    /\ TaskFrame

\* req.on('error')
ProbeError(j) ==
    /\ tasks[j].st = "probe"
    /\ ~InvalidUrlHost(sitesArray[j].domain)
    /\ Unreachable(j, "error")

\* req.setTimeout(10000)
ProbeTimeout(j) ==
    /\ tasks[j].st = "probe"
    /\ ~InvalidUrlHost(sitesArray[j].domain)
    /\ Unreachable(j, "timeout")

\* faulty variant of checkSite and collectAll without their try/catch: the
\* rejection reaches the caller of collectAll
ProbeThrowsPropagates(j) ==
    /\ tasks[j].st = "probe"
    /\ InvalidUrlHost(sitesArray[j].domain)
    /\ UNCHANGED faults
    /\ tasks' = [tasks EXCEPT ![j].reach = "rejected", ![j].st = "done"]
    /\ pc' = "thrown"
    /\ UNCHANGED <<parseVars, files, nginxSites, k, uniqueSites, sitesArray,
                   i, sites, pauses>>

\* faulty variant of checkSite without its second try/catch: the rejection
\* reaches Promise.all and the catch of collectAll, which returns sites
ProbeThrowsAborts(j) ==
    /\ tasks[j].st = "probe"
    /\ InvalidUrlHost(sitesArray[j].domain)
    /\ UNCHANGED faults
    /\ tasks' = [tasks EXCEPT ![j].reach = "rejected", ![j].st = "done"]
    /\ pc' = "done"
    /\ UNCHANGED <<parseVars, files, nginxSites, k, uniqueSites, sitesArray,
                   i, sites, pauses>>

\* protocol.get throws inside the promise executor of checkReachability
\* (an invalid URL): the promise rejects, the catch of checkSite logs it and
\* checkSite returns result as it stands
ProbeThrows(j) ==
    /\ tasks[j].st = "probe"
    /\ InvalidUrlHost(sitesArray[j].domain)
    /\ UNCHANGED faults
    /\ tasks' = [tasks EXCEPT ![j].reach = "rejected", ![j].st = "done"]
    /\ TaskFrame

\* faulty variants of the fan-in: the batch is joined when its first check
\* completes; the pause is taken after the last batch too
BatchJoinOnFirst ==
    /\ pc = "await"
    /\ \E j \in BatchOf(i, Len(sitesArray)) : tasks[j].st = "done"
    /\ sites' = sites \o [b \in 1..Cardinality(BatchOf(i, Len(sitesArray))) |->
                             tasks[i + b].result]
    /\ IF i + BatchSize < Len(sitesArray)
       THEN pc' = "pause" /\ pauses' = Append(pauses, PauseMs) /\ i' = i
       ELSE pc' = "batch" /\ pauses' = pauses /\ i' = i + BatchSize
    /\ UNCHANGED <<parseVars, files, nginxSites, k, uniqueSites, sitesArray,
                   tasks, faults>>

BatchJoinAlwaysPauses ==
    /\ pc = "await"
    /\ \A j \in BatchOf(i, Len(sitesArray)) : tasks[j].st = "done"
    /\ sites' = sites \o [b \in 1..Cardinality(BatchOf(i, Len(sitesArray))) |->
                             tasks[i + b].result]
    /\ pc' = "pause" /\ pauses' = Append(pauses, PauseMs) /\ i' = i
    /\ UNCHANGED <<parseVars, files, nginxSites, k, uniqueSites, sitesArray,
                   tasks, faults>>

\* Promise.all resolves: sites.push(...batchResults), then the pause when
\* another batch follows, else i += 3
BatchJoin ==
    /\ pc = "await"
    /\ \A j \in BatchOf(i, Len(sitesArray)) : tasks[j].st = "done"
    /\ sites' = sites \o [b \in 1..Cardinality(BatchOf(i, Len(sitesArray))) |->
                             tasks[i + b].result]
    /\ IF i + BatchSize < Len(sitesArray)
       THEN pc' = "pause" /\ pauses' = Append(pauses, PauseMs) /\ i' = i
       ELSE pc' = "batch" /\ pauses' = pauses /\ i' = i + BatchSize
    /\ UNCHANGED <<parseVars, files, nginxSites, k, uniqueSites, sitesArray,
                   tasks, faults>>

\* the 2000 ms timer fires: i += 3
PauseElapsed ==
    /\ pc = "pause"
    /\ i' = i + BatchSize
    /\ pc' = "batch"
    /\ UNCHANGED <<parseVars, files, nginxSites, k, uniqueSites, sitesArray,
                   tasks, sites, pauses, faults>>

Next ==
    \/ GetNginxSites
    \/ DedupStep
    \/ DedupDone
    \/ StartBatch
    \/ Return
    \/ \E j \in 1..Len(tasks) : CertInfo(j)
    \/ \E j \in 1..Len(tasks) : HandshakeRequestEnds(j)
    \/ \E j \in 1..Len(tasks) : CertNull(j)
    \/ \E j \in 1..Len(tasks) : CertThrows(j)
    \/ \E j \in 1..Len(tasks) : ProbeResponse(j)
    \/ \E j \in 1..Len(tasks) : ProbeError(j)
    \/ \E j \in 1..Len(tasks) : ProbeTimeout(j)
    \/ \E j \in 1..Len(tasks) : ProbeThrows(j)
    \/ BatchJoin
    \/ PauseElapsed

Spec == Init /\ [][Next]_vars

(***************************************************************************)
(* A collectAll run in which every step that can be taken is taken in the  *)
(* end: the continuations of collectAll run when their promise or timer is *)
(* settled (the event loop), and every pending inspection and every        *)
(* pending probe settles (by its response, its error or its own timeout of *)
(* 20 s or 10 s).                                                          *)
(***************************************************************************)
Continues ==
    \/ GetNginxSites
    \/ DedupStep
    \/ DedupDone
    \/ StartBatch
    \/ Return
    \/ BatchJoin
    \/ PauseElapsed

Settles(j) ==
    /\ j <= Len(tasks)
    /\ \/ CertInfo(j)
       \/ CertNull(j)
       \/ CertThrows(j)
       \/ ProbeResponse(j)
       \/ ProbeError(j)
       \/ ProbeTimeout(j)
       \/ ProbeThrows(j)

Fairness ==
    /\ WF_vars(Continues)
    /\ \A j \in 1..(MaxSites + 1) : WF_vars(Settles(j))

SpecLive == Init /\ [][Next]_vars /\ Fairness

(***************************************************************************)
(* A dedup run: discovery and the dedup loop of collectAll over every      *)
(* list of at most MaxFiles config files.                                  *)
(***************************************************************************)
InitDedup ==
    /\ content = [file |-> SiteFile(1, "plain"), isEnabled |-> TRUE]
    /\ parsed = Absent
    /\ NoCall
    /\ NoCollector
    /\ disk = StandardDisk
    /\ \E n \in 0..MaxFiles :
          \E ds \in [1..n -> 1..MaxFiles] :
              /\ InOrderOfAppearance(ds)
              /\ \E vs \in [1..n -> Variants] : files = FileListOf(ds, vs)
    /\ pc = "start"
    /\ nginxSites = <<>>
    /\ k = 0
    /\ uniqueSites = <<>>
    /\ sitesArray = <<>>
    /\ i = 0
    /\ tasks = <<>>
    /\ sites = <<>>
    /\ pauses = <<>>
    /\ faults = 0

NextDedup ==
    \/ GetNginxSites
    \/ DedupStep
    \/ DedupDone

SpecDedup == InitDedup /\ [][NextDedup]_vars

(***************************************************************************)
(* A discovery run: getNginxSites and the dedup loop over disks on which   *)
(* each of the four places is absent, fails to list, or holds files, some  *)
(* unreadable.  Without /etc/nginx the three places below it are absent.   *)
(***************************************************************************)
AvailableListings ==
    {<<>>,
     <<[name |-> "f1.conf", d |-> 1, variant |-> "plain", readable |-> TRUE]>>,
     <<[name |-> "default", d |-> 2, variant |-> "plain", readable |-> TRUE],
       [name |-> "f9.conf", d |-> 3, variant |-> "tls", readable |-> TRUE]>>,
     <<[name |-> "f8.conf", d |-> 5, variant |-> "plain", readable |-> FALSE],
       [name |-> "f9.conf", d |-> 3, variant |-> "plain", readable |-> TRUE]>>,
     <<[name |-> "f7.conf", d |-> 1, variant |-> "tls", readable |-> TRUE],
       [name |-> "f6.conf", d |-> 2, variant |-> "tls", readable |-> TRUE]>>}

VhostsListings ==
    {<<>>,
     <<[path |-> VhostsDir \o <<"a.example", "nginx.conf">>, d |-> 1,
        variant |-> "plesk", readable |-> TRUE]>>,
     <<[path |-> VhostsDir \o <<"g.example", "nginx.conf">>, d |-> 7,
        variant |-> "plesk", readable |-> FALSE],
       [path |-> VhostsDir \o <<"h.example", "nginx.conf">>, d |-> 8,
        variant |-> "plesk", readable |-> TRUE]>>}

ConfdListings ==
    {<<>>,
     <<[path |-> Append(ConfdDir, "b.example.conf"), d |-> 2,
        variant |-> "plesk", readable |-> TRUE]>>,
     <<[path |-> Append(ConfdDir, "ssl.conf"), d |-> 9,
        variant |-> "snippet", readable |-> TRUE],
       [path |-> Append(ConfdDir, "c.example.conf"), d |-> 3,
        variant |-> "plain", readable |-> TRUE]>>}

EnabledLists ==
    {RunFileList(n, 0) : n \in 0..2}
        \cup {<<[d |-> 1, variant |-> "snippet"], [d |-> 2, variant |-> "tls"],
                [d |-> 3, variant |-> "unreadable"], [d |-> 5, variant |-> "plain"]>>}

Only(root, S, none) == IF root THEN S ELSE {none}

InitDiscover ==
    /\ content = [file |-> SiteFile(1, "plain"), isEnabled |-> TRUE]
    /\ parsed = Absent
    /\ NoCall
    /\ NoCollector
    /\ \E root \in BOOLEAN :
          /\ files \in Only(root, EnabledLists, <<>>)
          /\ disk \in [nginxRoot : {root},
                       lsEnabledFails : Only(root, BOOLEAN, FALSE),
                       available : [fails : Only(root, BOOLEAN, FALSE),
                                    files : Only(root, AvailableListings, <<>>)],
                       vhosts : [fails : BOOLEAN, files : VhostsListings],
                       confd : [fails : Only(root, BOOLEAN, FALSE),
                                files : Only(root, ConfdListings, <<>>)]]
    /\ pc = "start"
    /\ nginxSites = <<>>
    /\ k = 0
    /\ uniqueSites = <<>>
    /\ sitesArray = <<>>
    /\ i = 0
    /\ tasks = <<>>
    /\ sites = <<>>
    /\ pauses = <<>>
    /\ faults = 0

SpecDiscover == InitDiscover /\ [][NextDedup]_vars

(***************************************************************************)
(* A whole cycle over hosts on which discovery meets failures: a host      *)
(* without /etc/nginx, a host on which every listing command fails, and a  *)
(* host whose directories hold vhosts beside a file without server_name    *)
(* and unreadable files.                                                   *)
(***************************************************************************)
CycleFiles ==
    RunFileList(6, 0) \o <<[d |-> 7, variant |-> "snippet"],
                           [d |-> 8, variant |-> "unreadable"]>>

CycleHosts ==
    {[files |-> <<>>,
      disk |-> [StandardDisk EXCEPT
                   !.nginxRoot = FALSE,
                   !.vhosts = [fails |-> FALSE,
                               files |-> <<[path |-> VhostsDir \o <<"a.example", "nginx.conf">>,
                                            d |-> 1, variant |-> "plesk",
                                            readable |-> TRUE]>>]]],
     [files |-> CycleFiles,
      disk |-> [nginxRoot |-> TRUE, lsEnabledFails |-> TRUE,
                available |-> [fails |-> TRUE, files |-> <<>>],
                vhosts |-> [fails |-> TRUE, files |-> <<>>],
                confd |-> [fails |-> TRUE, files |-> <<>>]]],
     [files |-> CycleFiles,
      disk |-> [StandardDisk EXCEPT
                   !.available =
                       [fails |-> FALSE,
                        files |-> <<[name |-> "f8.conf", d |-> 5, variant |-> "plain",
                                     readable |-> FALSE],
                                    [name |-> "f9.conf", d |-> 7, variant |-> "tls",
                                     readable |-> TRUE]>>],
                   !.vhosts =
                       [fails |-> FALSE,
                        files |-> <<[path |-> VhostsDir \o <<"g.example", "nginx.conf">>,
                                     d |-> 7, variant |-> "plesk",
                                     readable |-> FALSE]>>],
                   !.confd = [fails |-> TRUE, files |-> <<>>]]]}

InitCycle ==
    /\ content = [file |-> SiteFile(1, "plain"), isEnabled |-> TRUE]
    /\ parsed = Absent
    /\ NoCall
    /\ NoCollector
    /\ \E h \in CycleHosts : files = h.files /\ disk = h.disk
    /\ pc = "start"
    /\ nginxSites = <<>>
    /\ k = 0
    /\ uniqueSites = <<>>
    /\ sitesArray = <<>>
    /\ i = 0
    /\ tasks = <<>>
    /\ sites = <<>>
    /\ pauses = <<>>
    /\ faults = 0

SpecCycle == InitCycle /\ [][Next]_vars

(***************************************************************************)
(* A parser run: parseNginxConfig applied once to one config file.         *)
(***************************************************************************)
EnabledConfigPath == <<"etc", "nginx", "sites-enabled", "site.conf">>

IdleRun ==
    /\ disk = StandardDisk
    /\ files = <<>>
    /\ pc = "idle"
    /\ nginxSites = <<>>
    /\ k = 0
    /\ uniqueSites = <<>>
    /\ sitesArray = <<>>
    /\ i = 0
    /\ tasks = <<>>
    /\ sites = <<>>
    /\ pauses = <<>>
    /\ faults = 0
    /\ NoCollector

InitParse ==
    /\ content \in [file : ConfigFiles, isEnabled : BOOLEAN]
    /\ parsed = Absent
    /\ NoCall
    /\ IdleRun

ParseCall ==
    /\ parsed = Absent
    /\ parsed' = Some(ParseNginxConfig(EnabledConfigPath, content.file,
                                       content.isEnabled))
    /\ UNCHANGED <<content, call, ret, req, disk, procVars, runVars>>

NextParse == ParseCall

SpecParse == InitParse /\ [][NextParse]_vars

(***************************************************************************)
(* A probe run: checkReachability, getPleskSSLCertInfo or getSSLCertInfo   *)
(* applied once to its arguments.  A notAfter / valid_to date is a         *)
(* date-time with second resolution, [day, sec]: day counts the days       *)
(* since the epoch, sec the seconds of that day; now is a number of        *)
(* milliseconds.  A URL is the sequence of its parts.                      *)
(***************************************************************************)
SecPerDay == 60 * 60 * 24

\* new Date(text).getTime()
ParseDate(date) == (date.day * SecPerDay + date.sec) * 1000

\* faulty variant of the url: any well-known port is left out
ProbeUrlOmitsKnownPorts(domain, port, isSsl) ==
    LET scheme == IF isSsl THEN "https" ELSE "http"
    IN IF port \in {80, 443} THEN <<scheme, "://", domain>>
       ELSE <<scheme, "://", domain, ":", port>>

\* the url of checkReachability
ProbeUrl(domain, port, isSsl) ==
    LET isStandardPort == (isSsl /\ port = 443) \/ (~isSsl /\ port = 80)
        scheme == IF isSsl THEN "https" ELSE "http"
    IN IF isStandardPort THEN <<scheme, "://", domain>>
       ELSE <<scheme, "://", domain, ":", port>>

\* { expiry, daysRemaining } as both inspection functions compute it
CertInfoOf(date, now) ==
    [expiry |-> ParseDate(date),
     daysRemaining |-> DaysRemaining(ParseDate(date), now)]

\* getPleskSSLCertInfo: null when execAsync rejects or stdout has no
\* notAfter line
GetPleskSSLCertInfo(c) ==
    IF c.fails THEN Absent
    ELSE IF c.date = Absent THEN Absent
    ELSE Some(CertInfoOf(c.date[1], c.now))

\* getSSLCertInfo: null from the error and timeout handlers and when the
\* peer certificate has no valid_to
GetSSLCertInfo(c) ==
    IF c.fails THEN Absent
    ELSE IF c.date = Absent THEN Absent
    ELSE Some(CertInfoOf(c.date[1], c.now))

CertDates ==
    [day : ((Now \div MsPerDay) - 2)..((Now \div MsPerDay) + MaxDaysAhead),
     sec : {0, 1, SecPerDay - 1}]
Nows == {Now, Now + 1, Now + 500}

CertCalls ==
    [fn : {"getPleskSSLCertInfo", "getSSLCertInfo"},
     fails : BOOLEAN,
     date : {Absent} \cup {Some(d) : d \in CertDates},
     now : Nows]

ReachCalls ==
    [fn : {"checkReachability"},
     domain : {"example.com", RegexName},
     port : Ports \cup {8443},
     isSsl : BOOLEAN]

InitCall ==
    /\ content = [file |-> SiteFile(1, "plain"), isEnabled |-> TRUE]
    /\ parsed = Absent
    /\ call \in ReachCalls \cup CertCalls
    /\ ret = Absent
    /\ req = Absent
    /\ IdleRun

\* checkReachability up to the request: the module and the url it hands to
\* protocol.get, which throws on an invalid url
CheckReachabilityCall ==
    /\ ret = Absent
    /\ call.fn = "checkReachability"
    /\ ret' = Some([protocol |-> IF call.isSsl THEN "https" ELSE "http",
                    url |-> ProbeUrl(call.domain, call.port, call.isSsl),
                    thrown |-> InvalidUrlHost(call.domain)])
    /\ UNCHANGED <<content, parsed, call, req, disk, procVars, runVars>>

GetPleskSSLCertInfoCall ==
    /\ ret = Absent
    /\ call.fn = "getPleskSSLCertInfo"
    /\ ret' = Some(GetPleskSSLCertInfo(call))
    /\ UNCHANGED <<content, parsed, call, req, disk, procVars, runVars>>

GetSSLCertInfoCall ==
    /\ ret = Absent
    /\ call.fn = "getSSLCertInfo"
    /\ ret' = Some(GetSSLCertInfo(call))
    /\ UNCHANGED <<content, parsed, call, req, disk, procVars, runVars>>

NextCall ==
    \/ CheckReachabilityCall
    \/ GetPleskSSLCertInfoCall
    \/ GetSSLCertInfoCall

SpecCall == InitCall /\ [][NextCall]_vars

(***************************************************************************)
(* An event run: the request of one checkReachability or getSSLCertInfo    *)
(* call and the events it emits, in any order Node can deliver them.  The  *)
(* call record holds what the server would answer.  The request is         *)
(*   settled:   <<>> while the promise is pending, <<value>> once resolved *)
(*   resolves:  the number of calls of resolve so far                      *)
(*   events:    the handlers run so far, in order                          *)
(*   destroyed: req.destroy() was called                                   *)
(* A response or a timeout is not delivered on a destroyed request; an     *)
(* error event can follow the destroy (socket hang up).                    *)
(***************************************************************************)
\* faulty variant of resolve: a later call replaces the value
ResolveOverwrites(r, v) == [r EXCEPT !.settled = Some(v), !.resolves = @ + 1]

\* resolve(v) of a promise: only the first call settles it
Resolve(r, v) ==
    IF r.settled = Absent
    THEN [r EXCEPT !.settled = Some(v), !.resolves = @ + 1]
    ELSE [r EXCEPT !.resolves = @ + 1]

NotReachable ==
    [isReachable |-> FALSE, statusCode |-> Absent, responseTime |-> Absent]

Handled(event) == \E n \in 1..Len(req.events) : req.events[n] = event

ReachEventCalls ==
    [fn : {"checkReachability"}, status : {200, 301, 404, 503},
     elapsed : {0, 25, 9999}, date : {Absent}, now : {Now}]

CertEventCalls ==
    [fn : {"getSSLCertInfo"}, status : {200}, elapsed : {25},
     date : {Absent} \cup {Some(d) : d \in [day : {9, 20}, sec : {0, SecPerDay - 1}]},
     now : Nows]

InitEvents ==
    /\ content = [file |-> SiteFile(1, "plain"), isEnabled |-> TRUE]
    /\ parsed = Absent
    /\ call \in ReachEventCalls \cup CertEventCalls
    /\ ret = Absent
    /\ req = [settled |-> Absent, resolves |-> 0, events |-> <<>>,
              destroyed |-> FALSE]
    /\ IdleRun

EventFrame == UNCHANGED <<content, parsed, call, ret, disk, procVars, runVars>>

\* checkReachability, the response callback: resolve, then req.destroy()
ReachOnResponse ==
    /\ call.fn = "checkReachability"
    /\ ~Handled("response") /\ ~req.destroyed
    /\ req' = [Resolve(req, [isReachable |-> TRUE,
                             statusCode |-> Some(call.status),
                             responseTime |-> Some(call.elapsed)])
                  EXCEPT !.events = Append(@, "response"), !.destroyed = TRUE]
    /\ EventFrame

\* checkReachability, req.on('error')
ReachOnError ==
    /\ call.fn = "checkReachability"
    /\ ~Handled("error")
    /\ req' = [Resolve(req, NotReachable) EXCEPT !.events = Append(@, "error")]
    /\ EventFrame

\* checkReachability, req.setTimeout(10000): req.destroy(), then resolve
ReachOnTimeout ==
    /\ call.fn = "checkReachability"
    /\ ~Handled("timeout") /\ ~req.destroyed
    /\ req' = [Resolve(req, NotReachable)
                  EXCEPT !.events = Append(@, "timeout"), !.destroyed = TRUE]
    /\ EventFrame

\* getSSLCertInfo, the response callback: the request is left open
CertOnResponse ==
    /\ call.fn = "getSSLCertInfo"
    /\ ~Handled("response") /\ ~req.destroyed
    /\ req' = [Resolve(req, IF call.date = Absent THEN Absent
                            ELSE Some(CertInfoOf(call.date[1], call.now)))
                  EXCEPT !.events = Append(@, "response")]
    /\ EventFrame

\* getSSLCertInfo, req.on('error')
CertOnError ==
    /\ call.fn = "getSSLCertInfo"
    /\ ~Handled("error")
    /\ req' = [Resolve(req, Absent) EXCEPT !.events = Append(@, "error")]
    /\ EventFrame

\* getSSLCertInfo, req.setTimeout(20000): req.destroy(), then resolve(null)
CertOnTimeout ==
    /\ call.fn = "getSSLCertInfo"
    /\ ~Handled("timeout") /\ ~req.destroyed
    /\ req' = [Resolve(req, Absent)
                  EXCEPT !.events = Append(@, "timeout"), !.destroyed = TRUE]
    /\ EventFrame

NextEvents ==
    \/ ReachOnResponse
    \/ ReachOnError
    \/ ReachOnTimeout
    \/ CertOnResponse
    \/ CertOnError
    \/ CertOnTimeout

SpecEvents == InitEvents /\ [][NextEvents]_vars

\* the parser has returned an entry (not null)
ParsedEntry == parsed # Absent /\ parsed[1] # Absent
Entry == parsed[1][1]

\* the text has certificate evidence and no listen directive with an ssl
\* flag or port 443
CertOnlyText ==
    /\ content.file.text.certs # <<>>
    /\ \A j \in 1..Len(content.file.text.listens) :
          /\ content.file.text.listens[j].flag = "none"
          /\ content.file.text.listens[j].port # 443

(* C1: with certificate evidence and no listen directive carrying the ssl  *)
(* flag or naming port 443, parseNginxConfig returns port 443 and          *)
(* isSsl = TRUE.                                                           *)
C1_CertEvidenceForces443 ==
    (ParsedEntry /\ CertOnlyText) => (Entry.port = 443 /\ Entry.isSsl)

(***************************************************************************)
(* Properties of the dedup loop (SpecDedup).                               *)
(***************************************************************************)
DomainsOf(entries) == {entries[j].domain : j \in 1..Len(entries)}

\* the positions of the map that hold an entry of the domain
KeptFor(domain) == {e \in 1..Len(uniqueSites) : uniqueSites[e].domain = domain}

\* the TLS entries of the domain among the first n discovered entries
TlsEntries(domain, n) ==
    {t \in 1..n : nginxSites[t].domain = domain /\ nginxSites[t].isSsl}

(* C3: once an entry with isSsl = TRUE has been seen for a domain, the     *)
(* entry kept for that domain has isSsl = TRUE and its configPath and      *)
(* sslCertPath are those of a TLS entry of the domain, whatever was seen   *)
(* first; two entries of one domain, exactly one of them TLS, dedup to     *)
(* that TLS entry in both orders.                                          *)
C3_TlsEntryWins ==
    /\ \A j \in 1..k :
          nginxSites[j].isSsl =>
            /\ KeptFor(nginxSites[j].domain) # {}
            /\ \A e \in KeptFor(nginxSites[j].domain) :
                  /\ uniqueSites[e].isSsl
                  /\ \E t \in TlsEntries(nginxSites[j].domain, k) :
                        /\ uniqueSites[e].configPath = nginxSites[t].configPath
                        /\ uniqueSites[e].sslCertPath = nginxSites[t].sslCertPath
    /\ (/\ pc = "batch"
        /\ Len(nginxSites) = 2
        /\ nginxSites[1].domain = nginxSites[2].domain
        /\ nginxSites[1].isSsl # nginxSites[2].isSsl)
       => LET tls == IF nginxSites[1].isSsl THEN nginxSites[1] ELSE nginxSites[2]
          IN /\ uniqueSites = <<tls>>
             /\ Dedupe(<<>>, <<nginxSites[2], nginxSites[1]>>, 1) = <<tls>>

\* a non-TLS entry of a domain was seen first, a TLS entry later, and the
\* TLS entry is the one kept
C3_PlainSeenFirst ==
    /\ pc = "batch"
    /\ \E j1, j2 \in 1..Len(nginxSites) :
          /\ j1 < j2
          /\ nginxSites[j1].domain = nginxSites[j2].domain
          /\ ~nginxSites[j1].isSsl
          /\ nginxSites[j2].isSsl
          /\ \A j \in 1..(j1 - 1) : nginxSites[j].domain # nginxSites[j1].domain
          /\ \E e \in 1..Len(uniqueSites) : uniqueSites[e] = nginxSites[j2]

(* C4: an iteration of the dedup loop whose incoming entry shares its      *)
(* domain with a kept entry replaces the kept entry, in place, when the    *)
(* incoming entry is TLS and the kept one is not, and leaves the map       *)
(* unchanged in every other case.                                          *)
C4_ReplaceOnlyTlsOverPlain ==
    [][(pc = "dedup" /\ k' = k + 1) =>
          LET incoming == nginxSites[k + 1]
          IN \A e \in KeptFor(incoming.domain) :
                IF incoming.isSsl /\ ~uniqueSites[e].isSsl
                THEN /\ Len(uniqueSites') = Len(uniqueSites)
                     /\ uniqueSites'[e] = incoming
                     /\ \A o \in 1..Len(uniqueSites) :
                           o # e => uniqueSites'[o] = uniqueSites[o]
                ELSE uniqueSites' = uniqueSites]_vars

\* three entries of one domain were consumed, plain then TLS then TLS: the
\* first was replaced by the second and the third was dropped
C4_ReplacedThenRetained ==
    /\ pc = "dedup"
    /\ k >= 3
    /\ \E j1, j2, j3 \in 1..k :
          /\ j1 < j2 /\ j2 < j3
          /\ nginxSites[j1].domain = nginxSites[j2].domain
          /\ nginxSites[j2].domain = nginxSites[j3].domain
          /\ ~nginxSites[j1].isSsl
          /\ nginxSites[j2].isSsl
          /\ nginxSites[j3].isSsl
          /\ \A e \in KeptFor(nginxSites[j1].domain) :
                uniqueSites[e] = nginxSites[j2]

(* C5: the dedup loop is idempotent: run over the values of the map that   *)
(* the dedup loop built from the discovered entries, it yields that map    *)
(* again.                                                                  *)
C5_DedupIdempotent ==
    pc = "batch" =>
        LET once == Dedupe(<<>>, nginxSites, 1)
        IN /\ once = uniqueSites
           /\ Dedupe(<<>>, once, 1) = once

\* a dedup that dropped an entry and kept both TLS and non-TLS entries
C5_DedupedMixedList ==
    /\ pc = "batch"
    /\ Len(uniqueSites) >= 2
    /\ Len(nginxSites) > Len(uniqueSites)
    /\ \E a, b \in 1..Len(uniqueSites) :
          uniqueSites[a].isSsl /\ ~uniqueSites[b].isSsl

(***************************************************************************)
(* Properties of a collectAll run (Spec).                                  *)
(***************************************************************************)
Started == {j \in 1..Len(tasks) : tasks[j].st # "idle"}
InFlight == {j \in 1..Len(tasks) : tasks[j].st \in {"cert", "probe"}}

(* C2: the list returned by collectAll holds exactly one Site per distinct *)
(* domain of the discovered entries: no domain twice, none missing.        *)
C2_OneSitePerDomain ==
    pc = "done" =>
        /\ \A a, b \in 1..Len(sites) :
              a # b => sites[a].domain # sites[b].domain
        /\ DomainsOf(sites) = DomainsOf(nginxSites)

\* a run over entries with repeated domains returned several batches
C2_ReturnedFewerThanDiscovered ==
    /\ pc = "done"
    /\ Len(sites) >= 4
    /\ Len(nginxSites) > Len(sites)

(* C6: at most 3 checkSite calls are in flight at any moment: the checks   *)
(* started and not yet joined are those of one batch of consecutive        *)
(* entries, of size 3 unless it is the last one, and nothing is in flight  *)
(* outside the wait for a batch.                                           *)
C6_AtMostThreeInFlight ==
    /\ Cardinality(InFlight) <= 3
    /\ pc # "await" => InFlight = {}
    /\ pc = "await" =>
          LET cur == {j \in Started : j > i}
          IN /\ cur = (i + 1)..(i + Cardinality(cur))
             /\ InFlight \subseteq cur
             /\ i % 3 = 0
             /\ Cardinality(cur) <= 3
             /\ Cardinality(cur) = 3 \/ i + Cardinality(cur) = Len(sitesArray)

\* three checks of the second batch are in flight
C6_FullSecondBatchInFlight == Cardinality(InFlight) = 3 /\ i = 3

\* the pauses that have run to their end
PausesElapsed == IF pc = "pause" THEN Len(pauses) - 1 ELSE Len(pauses)

(* C7: a site check of batch N+1 has started only if every site check of   *)
(* the batches up to N is complete and the N pauses that follow them have  *)
(* elapsed.                                                                *)
C7_BatchesInSequence ==
    \A j \in Started :
        LET earlier == (j - 1) \div 3
        IN /\ \A j2 \in 1..(3 * earlier) : tasks[j2].st = "done"
           /\ PausesElapsed >= earlier

\* a check of the third batch is in flight after two pauses
C7_ThirdBatchStarted ==
    /\ Len(tasks) >= 7
    /\ tasks[7].st = "probe"
    /\ pauses = <<2000, 2000>>

Max0(x) == IF x < 0 THEN 0 ELSE x

(* C8: a 2000 ms pause follows every batch that another batch follows and  *)
(* never the final batch: a run over n unique sites has made               *)
(* max(0, ceil(n/3) - 1) pauses when it returns, and i \div 3 pauses when  *)
(* it is about to start the batch at index i.                              *)
C8_PauseBetweenBatchesOnly ==
    LET n == Len(sitesArray)
    IN /\ pc = "done" =>
             pauses = [x \in 1..Max0(((n + 2) \div 3) - 1) |-> 2000]
       /\ pc = "pause" => i + 3 < n
       /\ (pc = "batch" /\ i < n) => Len(pauses) = i \div 3

\* a run of three batches has returned after two pauses
C8_TwoPausesThenDone == pc = "done" /\ Len(pauses) = 2 /\ Len(sites) >= 7

\* the Site that checkSite reports for an entry, given how its own
\* inspection and its own probe ended
ExpectedResult(site, cert, reach) ==
    [domain |-> site.domain,
     configPath |-> site.configPath,
     isEnabled |-> site.isEnabled,
     port |-> site.port,
     isSsl |-> site.isSsl,
     sslCertPath |-> site.sslCertPath,
     sslCertExpiry |-> IF cert = "info" THEN Some(CertNotAfter(site.domain))
                       ELSE Absent,
     sslDaysRemaining |->
         IF cert = "info"
         THEN Some((CertNotAfter(site.domain) - Now) \div MsPerDay)
         ELSE Absent,
     isReachable |-> reach = "response",
     httpStatusCode |-> IF reach = "response"
                        THEN Some(ServerStatus(site.domain)) ELSE Absent,
     responseTimeMs |-> IF reach = "response"
                        THEN Some(ResponseMs(site.domain)) ELSE Absent]

(* C9: a failed inspection or probe of one site aborts neither its batch   *)
(* nor a later one and changes no other site's result: every check ends    *)
(* only when its own probe has settled, its result is the one its own      *)
(* outcomes determine (isReachable = FALSE, expiry fields absent on        *)
(* failure), and collectAll returns a Site for every deduplicated entry.   *)
C9_FailuresAreIsolated ==
    /\ \A j \in Started :
          /\ tasks[j].result =
                ExpectedResult(sitesArray[j], tasks[j].cert, tasks[j].reach)
          /\ tasks[j].st = "done" <=>
                tasks[j].reach \in {"response", "error", "timeout", "rejected"}
    /\ Len(sites) <= Len(sitesArray)
    /\ \A j \in 1..Len(sites) :
          sites[j] = ExpectedResult(sitesArray[j], tasks[j].cert, tasks[j].reach)
    /\ pc = "done" => Len(sites) = Len(sitesArray)

\* the probe of the second site of the first batch timed out, its siblings
\* and the next batch report complete results
C9_TimeoutAmongSiblings ==
    /\ pc = "done"
    /\ Len(sites) >= 6
    /\ tasks[2].reach = "timeout"
    /\ tasks[2].cert = "info"
    /\ sites[1].isReachable
    /\ sites[3].isReachable /\ sites[3].sslCertExpiry # Absent
    /\ sites[5].isReachable
    /\ ~sites[2].isReachable

NoProbeData(result) ==
    /\ ~result.isReachable
    /\ result.httpStatusCode = Absent
    /\ result.responseTimeMs = Absent

(* C10 as stated: checkReachability never rejects; on timeout, connection  *)
(* error or an exception raised while issuing the request it resolves      *)
(* with isReachable = FALSE and neither status code nor response time.     *)
C10_ProbeNeverRejects ==
    \A j \in 1..Len(tasks) :
        /\ tasks[j].reach # "rejected"
        /\ tasks[j].reach \in {"error", "timeout"} => NoProbeData(tasks[j].result)

(* C10 amended: on timeout and on connection error checkReachability       *)
(* resolves with isReachable = FALSE and neither status code nor response  *)
(* time; an exception raised while issuing the request rejects its         *)
(* promise, checkSite catches the rejection, and the site is reported      *)
(* with isReachable = FALSE and neither status code nor response time.     *)
C10_RejectionCaughtByCheckSite ==
    \A j \in 1..Len(tasks) :
        /\ tasks[j].reach \in {"error", "timeout"} => NoProbeData(tasks[j].result)
        /\ tasks[j].reach = "rejected" =>
              /\ tasks[j].st = "done"
              /\ NoProbeData(tasks[j].result)
              /\ pc = "done" => (j <= Len(sites) /\ sites[j] = tasks[j].result)

\* a run has returned the Site of a check whose probe promise rejected
C10_RejectedProbeReported ==
    /\ pc = "done"
    /\ \E j \in 1..Len(sites) :
          tasks[j].reach = "rejected" /\ sites[j] = tasks[j].result

(* C11: every site with isSsl = TRUE has its certificate inspected by      *)
(* exactly one of the two strategies: the file strategy when its           *)
(* certificate path lies under /opt/psa/var/certificates/, the handshake   *)
(* strategy for every other TLS site, those without a certificate path     *)
(* included; a site with isSsl = FALSE is not inspected.                   *)
C11_EveryTlsSiteInspected ==
    \A j \in Started :
        LET site == sitesArray[j]
        IN IF site.isSsl
           THEN IF site.sslCertPath # Absent
                   /\ StartsWithDir(site.sslCertPath[1], PleskCertDir)
                THEN tasks[j].via = "file" /\ tasks[j].cert # "none"
                ELSE tasks[j].via = "handshake" /\ tasks[j].cert # "none"
           ELSE tasks[j].via = "none" /\ tasks[j].cert = "none"

(***************************************************************************)
(* Properties of the parser (SpecParse).                                   *)
(***************************************************************************)
ListensOfText == content.file.text.listens

\* the listen directives of the text that carry the ssl parameter or name
\* port 443
TlsListens ==
    {j \in 1..Len(ListensOfText) :
        ListensOfText[j].flag # "none" \/ ListensOfText[j].port = 443}

(* C12: the first listen directive, in file order, that carries the ssl    *)
(* flag or names port 443 determines the result: port is its port, isSsl   *)
(* is TRUE, wherever it stands relative to the other listen directives.    *)
C12_FirstTlsListenWins ==
    (ParsedEntry /\ TlsListens # {}) =>
        /\ Entry.port = ListensOfText[Min(TlsListens)].port
        /\ Entry.isSsl

(* C13: with no listen directive that carries the ssl flag or names port   *)
(* 443 and no certificate evidence, the port is that of the first listen   *)
(* directive (80 when there is none) and isSsl is FALSE; later listen      *)
(* directives do not change the port.                                      *)
C13_FirstListenPortKept ==
    (ParsedEntry /\ TlsListens = {} /\ content.file.text.certs = <<>>) =>
        /\ Entry.port = IF ListensOfText = <<>> THEN 80 ELSE ListensOfText[1].port
        /\ ~Entry.isSsl

\* the tokens of the first server_name directive of the text
Tokens == content.file.text.serverNames[1]

(* C14: the parsed domain is the first token of the server_name directive  *)
(* that is not the wildcard "_", and the first token when every token is   *)
(* the wildcard: `server_name _ example.com;` gives example.com,           *)
(* `server_name _;` gives "_".                                             *)
C14_DomainIsFirstNonWildcard ==
    ParsedEntry =>
        /\ \A j \in 1..Len(Tokens) :
              (Tokens[j] # "_" /\ \A m \in 1..(j - 1) : Tokens[m] = "_")
                  => Entry.domain = Tokens[j]
        /\ (\A j \in 1..Len(Tokens) : Tokens[j] = "_") => Entry.domain = Tokens[1]
        /\ Tokens = <<"_", "example.com">> => Entry.domain = "example.com"
        /\ Tokens = <<"_">> => Entry.domain = "_"

\* a text whose server_name starts with the wildcard was parsed
C14_WildcardSkipped ==
    /\ ParsedEntry
    /\ Tokens = <<"_", "example.com">>
    /\ Entry.domain = "example.com"

\* the ssl_certificate directives of the text (not the ssl_certificate_key
\* ones), by position
CertDirectives ==
    {j \in 1..Len(content.file.text.certs) : ~content.file.text.certs[j].key}

(* C15: the parsed entry carries a certificate path only when its isSsl is *)
(* TRUE, and the path is then the argument of the first ssl_certificate    *)
(* directive of the text; an entry with isSsl = FALSE carries none.        *)
C15_CertPathOnlyWhenTls ==
    ParsedEntry =>
        /\ ~Entry.isSsl => Entry.sslCertPath = Absent
        /\ Entry.sslCertPath # Absent =>
              /\ Entry.isSsl
              /\ CertDirectives # {}
              /\ Entry.sslCertPath[1] =
                    content.file.text.certs[Min(CertDirectives)].path
        /\ (Entry.isSsl /\ CertDirectives # {}) => Entry.sslCertPath # Absent

\* a text with two ssl_certificate directives was parsed to the path of
\* the first
C15_FirstOfTwoCertificates ==
    /\ ParsedEntry
    /\ Cardinality(CertDirectives) = 2
    /\ Entry.isSsl
    /\ Entry.sslCertPath = Some(OtherCert)

(***************************************************************************)
(* Properties of the probe functions (SpecCall).                           *)
(***************************************************************************)
Returned(fns) == call # Absent /\ ret # Absent /\ call.fn \in fns

(* C16: the probe url leaves the port out exactly when (isSsl and port =   *)
(* 443) or (not isSsl and port = 80) and carries ":port" in every other    *)
(* case, a TLS site on port 80 and a plain site on port 443 included; the  *)
(* scheme is https iff isSsl.                                              *)
C16_UrlOmitsStandardPortOnly ==
    Returned({"checkReachability"}) =>
        LET url == ret[1].url
            standard == \/ call.isSsl /\ call.port = 443
                        \/ ~call.isSsl /\ call.port = 80
        IN /\ url[1] = (IF call.isSsl THEN "https" ELSE "http")
           /\ url[2] = "://"
           /\ url[3] = call.domain
           /\ standard <=> Len(url) = 3
           /\ ~standard => (Len(url) = 5 /\ url[4] = ":" /\ url[5] = call.port)
           /\ ret[1].protocol = url[1]

\* the url of a TLS site on port 80 was built with its port
C16_TlsOnPort80 ==
    /\ Returned({"checkReachability"})
    /\ call.isSsl /\ call.port = 80
    /\ ret[1].url = <<"https", "://", "example.com", ":", 80>>

(* C17: both inspection functions compute daysRemaining as the floor of    *)
(* (expiry - now) / one day on integer milliseconds: expiry exactly 10     *)
(* days after now gives 10, every expiry before now gives at most -1.      *)
C17_DaysRemainingIsFloor ==
    (Returned({"getPleskSSLCertInfo", "getSSLCertInfo"}) /\ ret[1] # Absent) =>
        LET diff == ((call.date[1].day * 86400 + call.date[1].sec) * 1000)
                        - call.now
            days == ret[1][1].daysRemaining
        IN /\ days * 86400000 <= diff
           /\ diff < (days + 1) * 86400000
           /\ diff = 10 * 86400000 => days = 10
           /\ diff < 0 => days <= -1

\* a certificate that expired one second ago was given -1 by the
\* handshake strategy
C17_ExpiredOneSecondAgo ==
    /\ Returned({"getSSLCertInfo"})
    /\ ret[1] # Absent
    /\ ret[1][1].expiry = call.now - 1000
    /\ ret[1][1].daysRemaining = -1

(***************************************************************************)
(* Properties of discovery (SpecDiscover).                                 *)
(***************************************************************************)
(* C18: discovery isolates failures per layout: a layout that is absent    *)
(* or fails yields no entry and takes none from the other layouts; the     *)
(* entries are those of layout A (sites-enabled, sites-available) when     *)
(* /etc/nginx exists, followed by those of layout B (the vhosts root) and  *)
(* of layout C (plesk.conf.d), so without /etc/nginx only layout A is      *)
(* skipped.                                                                *)
C18_LayoutsAreIsolated ==
    pc # "start" =>
        nginxSites =
            (IF disk.nginxRoot
             THEN EnabledSites(files, disk) \o AvailableSites(files, disk)
             ELSE <<>>)
            \o VhostsSites(disk) \o ConfdSites(disk)

(***************************************************************************)
(* Further properties of a collectAll run (Spec).                          *)
(***************************************************************************)
(* C19: no probe is retried within one collectAll run: every check makes   *)
(* at most one inspection call and at most one checkReachability call,     *)
(* failed or not, exactly one checkReachability call once it is complete,  *)
(* and the checks are those of pairwise distinct domains.                  *)
C19_NoRetry ==
    /\ \A j \in 1..Len(tasks) :
          /\ tasks[j].inspections <= 1
          /\ tasks[j].probes <= 1
          /\ tasks[j].inspections = 1 <=> tasks[j].cert # "none"
          /\ tasks[j].probes = 1 <=> tasks[j].reach # "none"
          /\ tasks[j].st = "done" => tasks[j].probes = 1
    /\ \A a, b \in 1..Len(sitesArray) :
          a # b => sitesArray[a].domain # sitesArray[b].domain
    /\ pc = "done" => \A j \in 1..Len(tasks) : tasks[j].probes = 1

\* a run has returned in which the inspection of one site failed and the
\* probe of another timed out, each called once
C19_FailuresNotRetried ==
    /\ pc = "done"
    /\ \E a, b \in 1..Len(tasks) :
          /\ a # b
          /\ tasks[a].cert = "null" /\ tasks[a].inspections = 1
          /\ tasks[b].reach = "timeout" /\ tasks[b].probes = 1

(***************************************************************************)
(* Termination of a collectAll run (SpecLive).                             *)
(***************************************************************************)
(* C20: when every inspection and every probe settles in the end,          *)
(* collectAll returns in the end, after exactly ceil(n/3) batches for n    *)
(* unique domains (i has then grown by 3 that many times), with one Site   *)
(* for each unique domain.                                                 *)
C20_EventuallyReturnsAll ==
    <>(/\ pc = "done"
       /\ i = 3 * ((Len(sitesArray) + 2) \div 3)
       /\ \A j \in 1..Len(tasks) : tasks[j].st = "done"
       /\ Len(sites) = Len(sitesArray)
       /\ \A j \in 1..Len(sites) : sites[j].domain = sitesArray[j].domain
       /\ DomainsOf(sites) = DomainsOf(nginxSites)
       /\ Cardinality(DomainsOf(sites)) = Len(sites))

\* a run over six unique domains has returned after two batches, with
\* failures on the way
C20_ReturnedAfterTwoBatches ==
    /\ pc = "done"
    /\ Len(sitesArray) = 6
    /\ i = 6
    /\ Len(sites) = 6
    /\ faults > 0

(***************************************************************************)
(* Properties of a whole cycle with discovery failures (SpecCycle).        *)
(***************************************************************************)
(* C21: collectAll never throws to its caller: it stays on its way to the  *)
(* return until it returns; a discovery that fails returns no entry, no    *)
(* check is started and the result is empty; failures of single files and  *)
(* of single sites do not end the cycle, which returns one Site for every  *)
(* domain discovered.                                                      *)
C21_NoExceptionPropagates ==
    /\ pc \in {"start", "dedup", "batch", "await", "pause", "done"}
    /\ pc = "done" \/ ENABLED Next
    /\ (pc # "start" /\ nginxSites = <<>>) =>
          /\ sites = <<>>
          /\ \A j \in 1..Len(tasks) : tasks[j].st = "idle"
          /\ Len(tasks) = 0
    /\ pc = "done" => Len(sites) = Cardinality(DomainsOf(nginxSites))

\* every listing command of discovery failed and collectAll returned the
\* empty list
C21_DiscoveryFailedEmptyResult ==
    /\ pc = "done"
    /\ disk.nginxRoot /\ disk.lsEnabledFails /\ disk.vhosts.fails
    /\ files # <<>>
    /\ sites = <<>>

\* the files that getNginxSites hands to the parser: the path read, the
\* path reported, the file and the isEnabled argument
Listed ==
    IF ~disk.nginxRoot THEN {}
    ELSE (IF disk.lsEnabledFails THEN {}
          ELSE {[configPath |-> ConfigPathOf(n), reported |-> ConfigPathOf(n),
                 file |-> SiteFile(files[n].d, files[n].variant),
                 isEnabled |-> TRUE] : n \in 1..Len(files)})
         \cup
         (IF disk.available.fails THEN {}
          ELSE {[configPath |-> Append(AvailableDir, e.name),
                 reported |-> Append(AvailableDir, e.name),
                 file |-> ListedFile(e), isEnabled |-> FALSE] :
                    e \in {disk.available.files[n] :
                              n \in {m \in 1..Len(disk.available.files) :
                                  /\ disk.available.files[m].name # "default"
                                  /\ \A f \in 1..Len(files) :
                                        FileNames[f] # disk.available.files[m].name}}})
         \cup
         UNION {IF l.fails THEN {}
                ELSE {[configPath |-> l.files[n].path,
                       reported |-> Append(l.files[n].path, " (Plesk)"),
                       file |-> ListedFile(l.files[n]), isEnabled |-> TRUE] :
                          n \in 1..Len(l.files)} : l \in {disk.vhosts, disk.confd}}

\* a file that cannot be read or has no server_name directive
Skipped(x) == ~x.file.readable \/ x.file.text.serverNames = <<>>

(* C22: a config file without server_name directive, or that cannot be     *)
(* read, produces no entry and is skipped: every other file handed to the  *)
(* parser, of the same layout and of the others, has exactly the entry of  *)
(* its own parse, and there is no further entry.                           *)
C22_UnparsedFileSkipped ==
    pc # "start" =>
        /\ \A x \in Listed :
              LET at == {j \in 1..Len(nginxSites) :
                            nginxSites[j].configPath = x.reported}
              IN IF Skipped(x) THEN at = {}
                 ELSE /\ Cardinality(at) = 1
                      /\ \A j \in at :
                            /\ nginxSites[j].domain = x.file.text.serverNames[1][1]
                            /\ nginxSites[j].isEnabled = x.isEnabled
                            /\ Some(nginxSites[j]) =
                                  ParseNginxConfig(x.reported, x.file, x.isEnabled)
        /\ Len(nginxSites) = Cardinality({x \in Listed : ~Skipped(x)})

\* sites-enabled holds a file without server_name and an unreadable file
\* among two vhosts, and both vhosts were discovered
C22_TwoOfFourFilesParsed ==
    /\ pc # "start"
    /\ Len(files) = 4
    /\ \E a, b \in 1..4 : files[a].variant = "snippet" /\ files[b].variant = "unreadable"
    /\ Len(nginxSites) >= 2
    /\ nginxSites[1].domain = "b.example"
    /\ nginxSites[2].domain = "e.example"

\* where an entry was discovered: 1 sites-enabled, 2 sites-available,
\* 3 the panel layouts
Origin(entry) ==
    IF entry.configPath[Len(entry.configPath)] = " (Plesk)" THEN 3
    ELSE IF SubSeq(entry.configPath, 1, 3) = AvailableDir THEN 2
    ELSE 1

(* C23: the dedup does not look at isEnabled: when the loop has ended, the *)
(* entry kept for a domain is the first TLS entry discovered for it, and   *)
(* the first entry when none is TLS, enabled or not; the entries are       *)
(* discovered in the order sites-enabled, sites-available, panel layouts.  *)
C23_DedupIgnoresIsEnabled ==
    /\ \A a, b \in 1..Len(nginxSites) :
          a < b => Origin(nginxSites[a]) <= Origin(nginxSites[b])
    /\ \A j \in 1..Len(nginxSites) :
          (Origin(nginxSites[j]) = 2) <=> ~nginxSites[j].isEnabled
    /\ pc = "batch" =>
          \A j \in 1..Len(nginxSites) :
              LET all == {m \in 1..Len(nginxSites) :
                             nginxSites[m].domain = nginxSites[j].domain}
                  tls == {m \in all : nginxSites[m].isSsl}
                  winner == IF tls # {} THEN Min(tls) ELSE Min(all)
              IN /\ Cardinality(KeptFor(nginxSites[j].domain)) = 1
                 /\ \A e \in KeptFor(nginxSites[j].domain) :
                       uniqueSites[e] = nginxSites[winner]

\* a not-enabled TLS entry replaced the enabled non-TLS entry of its
\* domain, and the enabled TLS entry of another domain was kept over a
\* not-enabled TLS one
C23_AvailableTlsReplacedEnabledPlain ==
    /\ pc = "batch"
    /\ Len(nginxSites) >= 4
    /\ Len(uniqueSites) >= 2
    /\ nginxSites[1].isEnabled /\ ~nginxSites[1].isSsl
    /\ uniqueSites[1].domain = nginxSites[1].domain
    /\ ~uniqueSites[1].isEnabled /\ uniqueSites[1].isSsl
    /\ uniqueSites[2] = nginxSites[2]
    /\ \E m \in 3..Len(nginxSites) :
          /\ nginxSites[m].domain = nginxSites[2].domain
          /\ ~nginxSites[m].isEnabled
          /\ nginxSites[m].isSsl = nginxSites[2].isSsl

(***************************************************************************)
(* Further properties of a collectAll run (Spec): shared state.            *)
(***************************************************************************)
(* C24: the result list changes only at the fan-in of a batch, when every  *)
(* check of the batch is complete and none is in flight, by appending the  *)
(* results of the batch; a step of a check in flight leaves the list and   *)
(* every other check as they are.                                          *)
C24_ResultListOnlyAtFanIn ==
    [][/\ sites' # sites =>
             /\ pc = "await"
             /\ InFlight = {}
             /\ \A j \in BatchOf(i, Len(sitesArray)) : tasks[j].st = "done"
             /\ tasks' = tasks
             /\ sites' = sites \o [b \in 1..(Len(sites') - Len(sites)) |->
                                      tasks[i + b].result]
       /\ \A j \in InFlight :
             tasks'[j] # tasks[j] =>
                 /\ sites' = sites
                 /\ sitesArray' = sitesArray
                 /\ \A o \in 1..Len(tasks) : o # j => tasks'[o] = tasks[o]]_vars

\* the result list holds the first batch while checks of the second are
\* in flight and one of them is complete
C24_ListHeldDuringSecondBatch ==
    /\ pc = "await"
    /\ Len(sites) = 3
    /\ Cardinality(InFlight) = 2
    /\ tasks[4].st = "done"

(* C25: an inspection that fails or returns nothing leaves both expiry     *)
(* fields unset and does not prevent the probe: checkReachability is       *)
(* called, and the Site is reported with what the probe found.             *)
C25_FailedInspectionKeepsProbe ==
    \A j \in 1..Len(tasks) :
        tasks[j].cert \in {"null", "rejected"} =>
            /\ tasks[j].result.sslCertExpiry = Absent
            /\ tasks[j].result.sslDaysRemaining = Absent
            /\ tasks[j].probes = 1
            /\ tasks[j].reach # "none"
            /\ tasks[j].st = "done" =>
                  tasks[j].reach \in {"response", "error", "timeout", "rejected"}
            /\ tasks[j].reach = "response" => tasks[j].result.isReachable
            /\ pc = "done" => (j <= Len(sites) /\ sites[j] = tasks[j].result)

\* a run has returned two reachable Sites without expiry fields: the
\* inspection of one returned null, that of the other threw
C25_ReachableWithoutExpiry ==
    /\ pc = "done"
    /\ \E a, b \in 1..Len(sites) :
          /\ tasks[a].cert = "null" /\ tasks[a].via = "file"
          /\ tasks[b].cert = "rejected" /\ tasks[b].via = "handshake"
          /\ sites[a].isReachable /\ sites[a].sslCertExpiry = Absent
          /\ sites[b].isReachable /\ sites[b].sslDaysRemaining = Absent

(***************************************************************************)
(* Properties of the events of one request (SpecEvents).                   *)
(***************************************************************************)
\* the value the handler of the first event resolves with
FirstEventValue ==
    IF call.fn = "checkReachability"
    THEN IF req.events[1] = "response"
         THEN [isReachable |-> TRUE, statusCode |-> <<call.status>>,
               responseTime |-> <<call.elapsed>>]
         ELSE [isReachable |-> FALSE, statusCode |-> <<>>, responseTime |-> <<>>]
    ELSE IF req.events[1] = "response" /\ call.date # <<>>
         THEN <<[expiry |-> ParseDate(call.date[1]),
                 daysRemaining |-> (ParseDate(call.date[1]) - call.now) \div 86400000]>>
         ELSE <<>>

(* C26: a probe and a handshake inspection settle exactly once whatever    *)
(* the order of their response, error and timeout events: the first event  *)
(* decides the value and no later event changes it; a probe value has      *)
(* isReachable = TRUE only with a response time and isReachable = FALSE    *)
(* only with neither status code nor response time.                        *)
C26_FirstEventSettles ==
    [][/\ req.settled # Absent => req'.settled = req.settled
       /\ (req.settled = Absent /\ req.events = <<>>) => req'.settled # Absent
       /\ req'.settled = <<FirstEventValue>>'
       /\ call.fn = "checkReachability" =>
             LET v == req'.settled[1]
             IN /\ v.isReachable => v.responseTime # Absent
                /\ ~v.isReachable =>
                      (v.statusCode = Absent /\ v.responseTime = Absent)]_vars

\* the timeout of a handshake inspection fired after its response, and
\* the certificate data of the response is still the value
C26_TimeoutAfterResponse ==
    /\ req # Absent
    /\ call.fn = "getSSLCertInfo"
    /\ req.events = <<"response", "timeout">>
    /\ req.resolves = 2
    /\ req.settled # Absent
    /\ req.settled[1] # Absent

(***************************************************************************)
(* Properties of the reported Sites (Spec).                                *)
(***************************************************************************)
\* the Site records of a state: those being filled and those reported
SiteRecords ==
    {tasks[j].result : j \in Started} \cup {sites[j] : j \in 1..Len(sites)}

(* C27: in every Site, sslCertExpiry is present iff sslDaysRemaining is,   *)
(* and both are present only when isSsl is TRUE and a certificate path was *)
(* extracted; a non-TLS Site carries no expiry field.                      *)
C27_ExpiryFieldsTogether ==
    \A r \in SiteRecords :
        /\ r.sslCertExpiry # Absent <=> r.sslDaysRemaining # Absent
        /\ r.sslCertExpiry # Absent => (r.isSsl /\ r.sslCertPath # Absent)
        /\ ~r.isSsl => (r.sslCertExpiry = Absent /\ r.sslDaysRemaining = Absent)

\* a run has returned a TLS Site with both expiry fields, a TLS Site
\* without certificate path and a non-TLS Site, both without
C27_ReportedWithAndWithoutExpiry ==
    /\ pc = "done"
    /\ Len(sites) >= 4
    /\ ~sites[1].isSsl
    /\ sites[2].sslCertExpiry # Absent /\ sites[2].sslDaysRemaining # Absent
    /\ sites[4].isSsl /\ sites[4].sslCertPath = Absent
    /\ sites[4].sslCertExpiry = Absent

\* the outbound operations of a check that are in flight: a pending
\* inspection, a pending probe, a handshake request left open
OpenOperations(j) ==
    (IF tasks[j].cert = "pending" THEN 1 ELSE 0)
        + (IF tasks[j].reach = "pending" THEN 1 ELSE 0)
        + (IF tasks[j].lingering THEN 1 ELSE 0)

RECURSIVE OpenUpTo(_)
OpenUpTo(n) == IF n = 0 THEN 0 ELSE OpenOperations(n) + OpenUpTo(n - 1)

(* C28: within one check the inspection and the probe run one after the    *)
(* other: the probe starts only when the inspection has settled, and at    *)
(* most 3 outbound network operations or subprocesses are in flight at any *)
(* time.                                                                   *)
C28_AtMostThreeOperations ==
    /\ \A j \in 1..Len(tasks) :
          tasks[j].reach # "none" => tasks[j].cert # "pending"
    /\ OpenUpTo(Len(tasks)) <= 3

\* the fields of a Site that discovery and deduplication determine
Discovered(r) ==
    <<r.domain, r.configPath, r.isEnabled, r.port, r.isSsl, r.sslCertPath>>

(* C29: checkSite leaves the discovered fields unchanged: in every Site    *)
(* being filled and in every reported Site, domain, configPath, isEnabled, *)
(* port, isSsl and sslCertPath equal those of the deduplicated entry it    *)
(* was built from, whatever the outcome of the inspection and the probe.   *)
C29_DiscoveredFieldsKept ==
    /\ \A j \in Started :
          Discovered(tasks[j].result) = Discovered(sitesArray[j])
    /\ Len(sites) <= Len(sitesArray)
    /\ \A n \in 1..Len(sites) :
          Discovered(sites[n]) = Discovered(sitesArray[n])

\* a returned run whose second site was inspected and answered and whose
\* third site, with a certificate path, failed both inspection and probe
C29_MixedOutcomesReported ==
    /\ pc = "done" /\ Len(sites) >= 3
    /\ sites[2].sslCertExpiry # Absent /\ sites[2].isReachable
    /\ sites[2].sslCertPath # Absent
    /\ sites[3].sslCertPath # Absent /\ sites[3].sslCertExpiry = Absent
    /\ ~sites[3].isReachable
    /\ Discovered(sites[3]) = Discovered(sitesArray[3])

(***************************************************************************)
(* ProcessCollector: the monitored process list.  Arrays are objects: the  *)
(* heap maps a reference (an index) to the array's content, so that an     *)
(* in-place push and a replacement by a new array are told apart.          *)
(***************************************************************************)
ProcessNames == {"nginx", "node"}

Elements(list) == {list[n] : n \in 1..Len(list)}

HasNoDuplicates(list) ==
    \A a, b \in 1..Len(list) : list[a] = list[b] => a = b

InitialLists ==
    {list \in SeqsUpTo(ProcessNames, Cardinality(ProcessNames)) :
        HasNoDuplicates(list)}

Monitored == heap[processes]

ProcFrame == UNCHANGED <<content, parsed, call, ret, req, disk, runVars>>

Logged(op, name) == log' = Append(log, [op |-> op, name |-> name])

\* new ProcessCollector(config): the caller's array is kept by reference
InitProc ==
    /\ content = Absent /\ parsed = Absent
    /\ NoCall
    /\ disk = StandardDisk
    /\ files = <<>> /\ pc = "idle" /\ nginxSites = <<>> /\ k = 0
    /\ uniqueSites = <<>> /\ sitesArray = <<>> /\ i = 0 /\ tasks = <<>>
    /\ sites = <<>> /\ pauses = <<>> /\ faults = 0
    /\ initial \in InitialLists
    /\ heap = <<initial>>
    /\ processes = 1
    /\ returned = 0
    /\ log = <<>>

AddProcessAlwaysPushes(processName) ==
    /\ Len(log) < MaxCalls
    /\ heap' = [heap EXCEPT ![processes] = Append(@, processName)]
    /\ Logged("addProcess", processName)
    /\ UNCHANGED <<processes, returned, initial>>
    /\ ProcFrame

\* if (!processes.includes(processName)) processes.push(processName)
AddProcess(processName) ==
    /\ Len(log) < MaxCalls
    /\ heap' = IF processName \in Elements(Monitored)
               THEN heap
               ELSE [heap EXCEPT ![processes] = Append(@, processName)]
    /\ Logged("addProcess", processName)
    /\ UNCHANGED <<processes, returned, initial>>
    /\ ProcFrame

\* this.config.processes = processes.filter(p => p !== processName)
RemoveProcess(processName) ==
    /\ Len(log) < MaxCalls
    /\ heap' = Append(heap, SelectSeq(Monitored, LAMBDA p : p # processName))
    /\ processes' = Len(heap) + 1
    /\ Logged("removeProcess", processName)
    /\ UNCHANGED <<returned, initial>>
    /\ ProcFrame

GetMonitoredProcessesReturnsList ==
    /\ Len(log) < MaxCalls
    /\ returned' = processes
    /\ Logged("getMonitoredProcesses", "")
    /\ UNCHANGED <<heap, processes, initial>>
    /\ ProcFrame

\* return [...this.config.processes]
GetMonitoredProcesses ==
    /\ Len(log) < MaxCalls
    /\ heap' = Append(heap, Monitored)
    /\ returned' = Len(heap) + 1
    /\ Logged("getMonitoredProcesses", "")
    /\ UNCHANGED <<processes, initial>>
    /\ ProcFrame

\* the caller changes the array it was handed: a push, or length = 0
MutateReturned ==
    /\ Len(log) < MaxCalls
    /\ returned # 0
    /\ \/ \E name \in ProcessNames :
             heap' = [heap EXCEPT ![returned] = Append(@, name)]
       \/ heap' = [heap EXCEPT ![returned] = <<>>]
    /\ Logged("mutate", "")
    /\ UNCHANGED <<processes, returned, initial>>
    /\ ProcFrame

NextProc ==
    \/ \E processName \in ProcessNames : AddProcess(processName)
    \/ \E processName \in ProcessNames : RemoveProcess(processName)
    \/ GetMonitoredProcesses
    \/ MutateReturned

SpecProc == InitProc /\ [][NextProc]_vars

\* the addProcess and removeProcess calls made with a name, in order
CallsOn(name) ==
    SelectSeq(log, LAMBDA e : e.name = name
                              /\ e.op \in {"addProcess", "removeProcess"})

\* a name is expected in the list iff its last operation was addProcess,
\* or it was initial and never removed
ExpectedMonitored(name) ==
    IF CallsOn(name) = <<>>
    THEN name \in Elements(initial)
    ELSE CallsOn(name)[Len(CallsOn(name))].op = "addProcess"

\* the step a call makes leaves the monitored list as it was when the call
\* is addProcess of a present name, removeProcess of an absent name or a
\* change of the returned array
CallKeepsList ==
    log' # log =>
        LET e == log'[Len(log')] IN
        (\/ e.op = "addProcess" /\ e.name \in Elements(Monitored)
         \/ e.op = "removeProcess" /\ e.name \notin Elements(Monitored)
         \/ e.op = "mutate")
            => Monitored' = Monitored

(* C30: for a ProcessCollector constructed with a duplicate-free list,     *)
(* after any sequence of addProcess and removeProcess calls the monitored  *)
(* list has no duplicates and contains a name iff its last operation was   *)
(* addProcess (or it was initial and never removed); addProcess of a       *)
(* present name and removeProcess of an absent name leave the list         *)
(* unchanged, and changing the array returned by getMonitoredProcesses     *)
(* does not change the monitored list.                                     *)
C30_MonitoredListIsASet ==
    /\ [](processes # 0 =>
            /\ HasNoDuplicates(Monitored)
            /\ \A name \in ProcessNames :
                  name \in Elements(Monitored) <=> ExpectedMonitored(name))
    /\ [][CallKeepsList]_vars

\* nginx was removed and added again, the array then handed out was emptied
\* by the caller, and the monitored list still holds both names
C30_ReaddedAndCopyEmptied ==
    /\ Len(log) = 4
    /\ log[1] = [op |-> "removeProcess", name |-> "nginx"]
    /\ log[2] = [op |-> "addProcess", name |-> "nginx"]
    /\ log[3].op = "getMonitoredProcesses"
    /\ log[4].op = "mutate"
    /\ heap[returned] = <<>>
    /\ initial = <<"nginx", "node">>
    /\ Monitored = <<"node", "nginx">>

====
